---- MODULE Spec2Model ----
(***************************************************************************)
(* MarketMind backend: the signal engine (trade_engine.py), the news       *)
(* aggregation and sentiment scoring (sentiment_engine.py) and the request *)
(* handler that drives them on process-wide engine objects (app.py).       *)
(*                                                                         *)
(* Units.  Floats are modelled as exact scaled integers:                   *)
(*   prices, momentum            in cents (1/100)                          *)
(*   volatility                  in 1/10000                                *)
(*   sentiment score             integer in -100..100                      *)
(*   VADER compound              in 1/10000 (VADER rounds to 4 decimals)   *)
(* round(x, 2) and round(x) are modelled as round-half-to-even of the      *)
(* exact quotient.                                                         *)
(***************************************************************************)
EXTENDS Integers, Sequences, FiniteSets, TLC

VARIABLES
    demo_mode,   \* engine.demo_mode, one flag on the process-wide engine
    pc,          \* per request thread: position in analyze_stock/get_signal
    req,         \* per request thread: the request's (ticker, timeframe)
    provided,    \* per request thread: what yf.download did for this call
    df,          \* per request thread: the bars fetch_data returned (local)
    result,      \* per request thread: what get_signal returned
    pred_in,     \* estimate_next_24h: the latest snapshot and sentiment_score
    pred_out,    \* estimate_next_24h: the returned prediction
    news_in,     \* fetch_news: what each source did, and limit
    news_out,    \* fetch_news: all_news, unique_news (sorted) and the return
    dedup_in,    \* _deduplicate_news: news_list
    dedup_out,   \* _deduplicate_news: the returned list
    sent_in,     \* analyze_sentiment: the compound score of each headline
    sent_out,    \* analyze_sentiment: the returned score, label, explanation
    bias_in,     \* get_signal lines 161-186: the latest snapshot
    bias_out,    \* get_signal lines 161-186: rsi and bias
    ind_in,      \* get_signal lines 157-186: the closes of the frame
    ind_out,     \* get_signal lines 157-186: latest snapshot, rsi and bias
    demo_loop,   \* generate_demo_data: position in the loop, price, last bar
    demo_out,    \* generate_demo_data: the returned frame
    ai_model,    \* ai_hub.model, set by MarketReasoning.__init__
    ai_in,       \* analyze_market_state: arguments and what the LLM call does
    ai_out       \* analyze_market_state: the returned value

signalVars == <<demo_mode, pc, req, provided, df, result>>
predVars   == <<pred_in, pred_out>>
newsVars   == <<news_in, news_out>>
dedupVars  == <<dedup_in, dedup_out>>
sentVars   == <<sent_in, sent_out>>
biasVars   == <<bias_in, bias_out>>
indVars    == <<ind_in, ind_out>>
demoVars   == <<demo_loop, demo_out>>
aiVars     == <<ai_model, ai_in, ai_out>>
vars       == <<signalVars, predVars, newsVars, dedupVars, sentVars,
                biasVars, indVars, demoVars, aiVars>>

(***************************************************************************)
(* Bounds of the model.                                                    *)
(***************************************************************************)
NumThreads  == 2     \* request threads of the server's pool
MaxLiveBars == 12    \* the provider returns 0..MaxLiveBars rows

Threads == 1..NumThreads

(***************************************************************************)
(* Helpers.                                                                *)
(***************************************************************************)
Min(a, b) == IF a < b THEN a ELSE b
Max(a, b) == IF a > b THEN a ELSE b

None == [kind |-> "none"]

(***************************************************************************)
(* trade_engine.py: fetch_data, generate_demo_data, get_signal             *)
(***************************************************************************)
MinBars    == 10     \* len(df) < 10
DemoBars   == 60     \* periods=60
ChartTail  == 100    \* df.tail(100)

Tickers    == {"XYZ"}
Timeframes == {"1W", "1M", "1Y", "5Y"}     \* "5Y" is not a key of timeframe_map

\* timeframe_map.get(timeframe, {"period": "1mo", "interval": "1d"})
timeframe_map(timeframe) ==
    CASE timeframe = "1W" -> [period |-> "7d",  interval |-> "30m"]
      [] timeframe = "1M" -> [period |-> "1mo", interval |-> "1d"]
      [] timeframe = "1Y" -> [period |-> "1y",  interval |-> "1d"]
      [] OTHER            -> [period |-> "1mo", interval |-> "1d"]

\* What yf.download can do: raise, return None, or return a frame of n rows.
ProviderOutcomes ==
    {[kind |-> "raise", rows |-> 0], [kind |-> "none", rows |-> 0]}
    \cup {[kind |-> "frame", rows |-> n] : n \in 0..MaxLiveBars}

\* generate_demo_data: 60 synthetic daily bars
generate_demo_data == [synthetic |-> TRUE, rows |-> DemoBars]

\* Faulty variant of insufficient: the minimum bar count is off by one.
insufficient_le(o) == o.rows = 0 \/ o.rows <= MinBars

\* df is None or df.empty or len(df) < 10   (for a frame that was returned)
insufficient(o) == o.rows = 0 \/ o.rows < MinBars

\* fetch_data: the pair (value written to self.demo_mode, frame returned).
\* A raise of yf.download, and the AttributeError of df.columns on None, both
\* end in the except branch.
fetch_data(o) ==
    IF o.kind \in {"raise", "none"}
    THEN [demo_mode |-> TRUE, df |-> generate_demo_data]
    ELSE IF insufficient(o)
         THEN [demo_mode |-> TRUE, df |-> generate_demo_data]
         ELSE [demo_mode |-> FALSE, df |-> [synthetic |-> FALSE, rows |-> o.rows]]

\* analyze_stock: a request arrives and calls engine.get_signal
Call(t) ==
    /\ pc[t] = "idle"
    /\ \E ticker \in Tickers, timeframe \in Timeframes :
          req' = [req EXCEPT ![t] = [ticker |-> ticker, timeframe |-> timeframe,
                                     tf_params |-> timeframe_map(timeframe)]]
    /\ pc' = [pc EXCEPT ![t] = "fetch_data"]
    /\ UNCHANGED <<demo_mode, provided, df, result>>
    /\ UNCHANGED <<predVars, newsVars, dedupVars, sentVars>>
    /\ UNCHANGED <<biasVars, indVars, demoVars, aiVars>>

\* get_signal line 152: df = self.fetch_data(ticker, timeframe)
FetchData(t) ==
    /\ pc[t] = "fetch_data"
    /\ \E o \in ProviderOutcomes :
          /\ provided' = [provided EXCEPT ![t] = o]
          /\ demo_mode' = fetch_data(o).demo_mode
          /\ df' = [df EXCEPT ![t] = fetch_data(o).df]
    /\ pc' = [pc EXCEPT ![t] = "assemble"]
    /\ UNCHANGED <<req, result>>
    /\ UNCHANGED <<predVars, newsVars, dedupVars, sentVars>>
    /\ UNCHANGED <<biasVars, indVars, demoVars, aiVars>>

\* get_signal lines 154-238: the empty check, the indicators, and the result
\* record, whose mode is read from self.demo_mode at line 209.
get_signal_result(frame, flag) ==
    IF frame.rows = 0
    THEN [kind |-> "error", mode |-> "", charts |-> 0]
    ELSE [kind |-> "signal",
          mode |-> IF flag THEN "DEMO" ELSE "LIVE",
          charts |-> Min(frame.rows, ChartTail)]

Assemble(t) ==
    /\ pc[t] = "assemble"
    /\ result' = [result EXCEPT ![t] = get_signal_result(df[t], demo_mode)]
    /\ pc' = [pc EXCEPT ![t] = "done"]
    /\ UNCHANGED <<demo_mode, req, provided, df>>
    /\ UNCHANGED <<predVars, newsVars, dedupVars, sentVars>>
    /\ UNCHANGED <<biasVars, indVars, demoVars, aiVars>>

\* analyze_stock lines 51-81: the response is returned; the thread is free again
Return(t) ==
    /\ pc[t] = "done"
    /\ pc' = [pc EXCEPT ![t] = "idle"]
    /\ req' = [req EXCEPT ![t] = None]
    /\ provided' = [provided EXCEPT ![t] = None]
    /\ df' = [df EXCEPT ![t] = None]
    /\ result' = [result EXCEPT ![t] = None]
    /\ UNCHANGED demo_mode
    /\ UNCHANGED <<predVars, newsVars, dedupVars, sentVars>>
    /\ UNCHANGED <<biasVars, indVars, demoVars, aiVars>>

(***************************************************************************)
(* trade_engine.py: estimate_next_24h                                      *)
(***************************************************************************)
MaxPriceSteps    == 4     \* Close in {25.00, 50.00, ..., 100.00}
MaxVolSteps      == 7     \* volatility in {0, 0.005, ..., 0.035}
MaxMomentumSteps == 3     \* momentum in {-1.50, -1.00, ..., 1.50}
MaxScore         == 100   \* round(avg_score * 100), avg_score in [-1, 1]

Prices       == {2500 * k : k \in 1..MaxPriceSteps}
Volatilities == {50 * k : k \in 0..MaxVolSteps}
Momenta      == {50 * k : k \in (-MaxMomentumSteps)..MaxMomentumSteps}
Scores       == (-MaxScore)..MaxScore

\* base + n / d rounded half to even (d > 0): Python's round()
RoundHalfEven(base, n, d) ==
    LET q == n \div d
        r == n - q * d
    IN  IF 2 * r < d THEN base + q
        ELSE IF 2 * r > d THEN base + q + 1
        ELSE IF (base + q) % 2 = 0 THEN base + q ELSE base + q + 1

\* Faulty variant of effective_vol: the default acts as a floor.
effective_vol_floor(volatility) == Max(volatility, 150)

\* line 120: float(latest["volatility"]) if latest["volatility"] > 0 else 0.015
effective_vol(volatility) == IF volatility > 0 THEN volatility ELSE 150

\* line 128: 0.5 if momentum > 0 else -0.5, in tenths
mom_weight(momentum) == IF momentum > 0 THEN 5 ELSE -5

\* Faulty variant of prediction_confidence: agreement is seen only when both are positive.
prediction_confidence_pos(momentum, sentiment_score, vol) ==
    LET c0 == 70
        c1 == IF momentum > 0 /\ sentiment_score > 0 THEN c0 + 10 ELSE c0
        c2 == IF vol > 300 THEN c1 - 15 ELSE c1
    IN  Min(Max(c2, 40), 95)

\* lines 138-142 and 147
prediction_confidence(momentum, sentiment_score, vol) ==
    LET c0 == 70
        c1 == IF \/ (momentum > 0 /\ sentiment_score > 0)
                 \/ (momentum < 0 /\ sentiment_score < 0)
              THEN c0 + 10 ELSE c0
        c2 == IF vol > 300 THEN c1 - 15 ELSE c1
    IN  Min(Max(c2, 40), 95)

\* lines 117-149.  Exact arithmetic over the common denominator 2000000:
\*   one_sigma_move  = price_now * vol          cents / 10000
\*   total_bias      = sent_weight + mom_weight * 0.5, in 1/200:
\*                     sentiment_score/100 * 0.5 = sentiment_score / 200
\*                     mom_weight * 0.5          = (mom_weight tenths) * 10 / 200
\*   expected_change = one_sigma_move * total_bias          cents / 2000000
\*   estimated_price = price_now + expected_change
\*   low_est, high_est = estimated_price -/+ one_sigma_move
\* (the sums are kept as price_now plus a fraction: 32-bit integers)
estimate_next_24h(latest, sentiment_score) ==
    LET price_now       == latest.Close
        vol             == effective_vol(latest.volatility)
        momentum        == latest.momentum
        one_sigma_move  == price_now * vol
        sent_weight     == sentiment_score
        total_bias      == sent_weight + mom_weight(momentum) * 10
        expected_change == one_sigma_move * total_bias
        low_change      == expected_change - one_sigma_move * 200
        high_change     == expected_change + one_sigma_move * 200
    IN  [estimated_price       |-> RoundHalfEven(price_now, expected_change, 2000000),
         range                 |-> <<RoundHalfEven(price_now, low_change, 2000000),
                                     RoundHalfEven(price_now, high_change, 2000000)>>,
         prediction_confidence |-> prediction_confidence(momentum, sentiment_score, vol),
         volatility_factor     |-> vol]

\* The arguments of a call: df.iloc[-1] and sentiment_score
PredictionInputs ==
    {[kind |-> "call",
      latest |-> [Close |-> c, volatility |-> v, momentum |-> m],
      sentiment_score |-> s] :
        c \in Prices, v \in Volatilities, m \in Momenta, s \in Scores}

\* estimate_next_24h runs on its arguments and returns.
EstimateNext24h ==
    /\ pred_in # None
    /\ pred_out = None
    /\ pred_out' = estimate_next_24h(pred_in.latest, pred_in.sentiment_score)
    /\ UNCHANGED <<pred_in, signalVars, newsVars, dedupVars, sentVars>>
    /\ UNCHANGED <<biasVars, indVars, demoVars, aiVars>>

(***************************************************************************)
(* sentiment_engine.py: fetch_news, _deduplicate_news                      *)
(*                                                                         *)
(* A title is a sequence of characters.  A headline is the dict a          *)
(* _fetch_* method appends: title, published_timestamp and source (link    *)
(* and the relative-time string take no part in what follows).             *)
(***************************************************************************)
MaxNews      == 3     \* headlines the three sources return together
MaxLimit     == 2     \* limit in 0..MaxLimit
MaxList      == 3     \* length of the list _deduplicate_news is given
KeyWords     == 10    \* normalized.split()[:10]

UpperCase == {"A", "B", "C"}
LowerCase == {"a", "b", "c"}
Digits    == {"1"}
Spaces    == {" ", "\t"}

\* str.lower(), character by character
lower_char(c) ==
    CASE c = "A" -> "a"
      [] c = "B" -> "b"
      [] c = "C" -> "c"
      [] OTHER   -> c

lower(s) == [i \in 1..Len(s) |-> lower_char(s[i])]

\* \w: letters, digits and the underscore; \s: whitespace
IsWordChar(c)  == c \in UpperCase \cup LowerCase \cup Digits \cup {"_"}
IsSpaceChar(c) == c \in Spaces

\* re.sub(r'[^\w\s]', '', s)
KeepsChar(c) == IsWordChar(c) \/ IsSpaceChar(c)
re_sub_punct(s) == SelectSeq(s, KeepsChar)

\* str.split(): the maximal runs of non-whitespace characters
RECURSIVE split_from(_, _, _, _)
split_from(s, i, word, words) ==
    IF i > Len(s)
    THEN IF word = <<>> THEN words ELSE Append(words, word)
    ELSE IF IsSpaceChar(s[i])
         THEN split_from(s, i + 1, <<>>,
                         IF word = <<>> THEN words ELSE Append(words, word))
         ELSE split_from(s, i + 1, Append(word, s[i]), words)

split(s) == split_from(s, 1, <<>>, <<>>)

\* ' '.join(words)
RECURSIVE join(_)
join(words) ==
    IF words = <<>> THEN <<>>
    ELSE IF Len(words) = 1 THEN words[1]
    ELSE words[1] \o <<" ">> \o join(Tail(words))

\* seq[:n] for n >= 0
take(seq, n) == SubSeq(seq, 1, Min(n, Len(seq)))

\* Faulty variant of normalized: the title is not lower-cased.
normalized_case_sensitive(title) ==
    join(take(split(re_sub_punct(title)), KeyWords))

\* lines 191-192: the key a title is compared by
normalized(title) == join(take(split(re_sub_punct(lower(title))), KeyWords))

\* The titles the feeds deliver in this model (a title may come from more
\* than one feed).
FeedTitles ==
    { <<"A", "b", " ", "c">>,                        \* "Ab c"
      <<"a", "b", "c">>,                             \* "abc"
      <<"B", "!">> }                                 \* "B!"

\* Eleven words: "b c c c c c c c c c" followed by `last`
Long(last) ==
    <<"b", " ", "c", " ", "c", " ", "c", " ", "c", " ", "c", " ", "c", " ",
      "c", " ", "c", " ", "c", " ">> \o last

\* The titles _deduplicate_news is run on in this model.
Titles ==
    FeedTitles
    \cup { <<"a", "b", ",", " ", "c", "!", " ">>,         \* "ab, c! "
           <<"a", "_", "b", "\t", "c", "1">>,          \* "a_b<TAB>c1"
           <<"-", " ", "A", "B", " ", "-", " ", "C", ".">>,  \* "- AB - C."
           Long(<<"a">>),
           Long(<<"b", "!">>) }

\* normalized, tabulated once over the titles of the model
NormalizedTable == [t \in Titles |-> normalized(t)]
title_key(title) == NormalizedTable[title]

RECURSIVE dedup_from(_, _, _, _)
dedup_from(news_list, i, seen_titles, unique) ==
    IF i > Len(news_list) THEN unique
    ELSE IF title_key(news_list[i].title) \notin seen_titles
         THEN dedup_from(news_list, i + 1,
                         seen_titles \cup {title_key(news_list[i].title)},
                         Append(unique, news_list[i]))
         ELSE dedup_from(news_list, i + 1, seen_titles, unique)

\* Faulty variant of _deduplicate_news: duplicates are deleted from the list while it
\* is iterated, so the element after a deleted one is skipped.
RECURSIVE dedup_in_place(_, _, _)
dedup_in_place(news_list, i, seen_titles) ==
    IF i > Len(news_list) THEN news_list
    ELSE IF title_key(news_list[i].title) \notin seen_titles
         THEN dedup_in_place(news_list, i + 1,
                             seen_titles \cup {title_key(news_list[i].title)})
         ELSE dedup_in_place(SubSeq(news_list, 1, i - 1)
                               \o SubSeq(news_list, i + 1, Len(news_list)),
                             i + 1, seen_titles)

_deduplicate_news_in_place(news_list) == dedup_in_place(news_list, 1, {})

\* lines 184-198
_deduplicate_news(news_list) == dedup_from(news_list, 1, {}, <<>>)

\* list.sort(key=published_timestamp, reverse=True): stable, so headlines of
\* equal timestamp keep their order.
RECURSIVE insert_desc(_, _)
insert_desc(sorted, x) ==
    IF sorted = <<>> THEN <<x>>
    ELSE IF Head(sorted).published_timestamp >= x.published_timestamp
         THEN <<Head(sorted)>> \o insert_desc(Tail(sorted), x)
         ELSE <<x>> \o sorted

RECURSIVE sort_from(_, _, _)
sort_from(news_list, i, sorted) ==
    IF i > Len(news_list) THEN sorted
    ELSE sort_from(news_list, i + 1, insert_desc(sorted, news_list[i]))

\* Faulty variant of sort_recent_first: the list is left in collection order.
sort_forgotten(news_list) == news_list

\* line 45
sort_recent_first(news_list) == sort_from(news_list, 1, <<>>)

\* Faulty variant of try_extend: the except branch starts the collection over.
try_extend_reset(all_news, outcome) ==
    IF outcome.kind = "raise" THEN <<>> ELSE all_news \o outcome.news

\* lines 24-27, 30-33, 36-39: try: all_news.extend(self._fetch_...(...))
\* except Exception: print(...)
try_extend(all_news, outcome) ==
    IF outcome.kind = "raise" THEN all_news ELSE all_news \o outcome.news

\* Faulty variant of fetch_news: the list is cut to limit before it is sorted.
fetch_news_cut_first(inp) ==
    LET all_news    == try_extend(try_extend(try_extend(<<>>, inp.google),
                                             inp.yahoo), inp.bing)
        unique_news == _deduplicate_news(all_news)
    IN  [kind         |-> "returned",
         all_news     |-> all_news,
         deduplicated |-> unique_news,
         unique_news  |-> sort_recent_first(unique_news),
         returned     |-> sort_recent_first(take(unique_news, inp.limit))]

\* lines 13-47.  `deduplicated` is unique_news before the in-place sort.
fetch_news(inp) ==
    LET all_news    == try_extend(try_extend(try_extend(<<>>, inp.google),
                                             inp.yahoo), inp.bing)
        unique_news == _deduplicate_news(all_news)
        sorted      == sort_recent_first(unique_news)
    IN  [kind         |-> "returned",
         all_news     |-> all_news,
         deduplicated |-> unique_news,
         unique_news  |-> sorted,
         returned     |-> take(sorted, inp.limit)]

\* published_timestamp: an older and a more recent time of publication
Timestamps == {1, 2}

Headlines(source) ==
    {[title |-> t, published_timestamp |-> ts, source |-> source] :
        t \in FeedTitles, ts \in Timestamps}

RECURSIVE SeqsUpTo(_, _)
SeqsUpTo(S, n) ==
    IF n = 0 THEN {<<>>}
    ELSE SeqsUpTo(S, n - 1)
         \cup {Append(s, x) : s \in {q \in SeqsUpTo(S, n - 1) : Len(q) = n - 1},
                              x \in S}

\* What a _fetch_* method can do: raise, or return a list of at most n
\* headlines.
SourceOutcomes(source, n) ==
    {[kind |-> "raise", news |-> <<>>]}
    \cup {[kind |-> "list", news |-> l] : l \in SeqsUpTo(Headlines(source), n)}

\* The lists _deduplicate_news is run on: headlines of two sources.
DedupHeadlines ==
    {[title |-> t, published_timestamp |-> 1, source |-> src] :
        t \in Titles, src \in {"Google News", "Bing News"}}

\* _deduplicate_news runs on news_list and returns.
DeduplicateNews ==
    /\ dedup_in # None
    /\ dedup_out = None
    /\ dedup_out' = [kind |-> "returned",
                     unique |-> _deduplicate_news(dedup_in.news_list)]
    /\ UNCHANGED <<dedup_in, signalVars, predVars, newsVars, sentVars>>
    /\ UNCHANGED <<biasVars, indVars, demoVars, aiVars>>

\* fetch_news runs on what the three sources did and returns.
FetchNews ==
    /\ news_in # None
    /\ news_out = None
    /\ news_out' = fetch_news(news_in)
    /\ UNCHANGED <<news_in, signalVars, predVars, dedupVars, sentVars>>
    /\ UNCHANGED <<biasVars, indVars, demoVars, aiVars>>

(***************************************************************************)
(* sentiment_engine.py: analyze_sentiment                                  *)
(*                                                                         *)
(* A headline is represented by the compound score VADER gives its title   *)
(* (polarity_scores(...)["compound"], in [-1, 1]), in 1/10000.             *)
(***************************************************************************)
MaxHeadlines == 2     \* headlines analyze_sentiment is given

\* compound scores -1.00, -0.98, ..., 0.98, 1.00
Compounds == {200 * k : k \in (-50)..50}

RECURSIVE sum(_)
sum(scores) == IF scores = <<>> THEN 0 ELSE Head(scores) + sum(Tail(scores))

\* lines 214-215: round(sum(scores) / len(scores) * 100)
scaled_score_of(scores) == RoundHalfEven(0, sum(scores), Len(scores) * 100)

\* Faulty variant of categorize: the lower bounds of Positive and Very Positive are
\* exclusive.
categorize_exclusive(scaled_score) ==
    IF scaled_score > 40 THEN
        [label |-> "Very Positive",
         explanation |-> "Strong positive sentiment detected in recent headlines; market outlook is bullish."]
    ELSE IF 10 < scaled_score /\ scaled_score < 40 THEN
        [label |-> "Positive",
         explanation |-> "Moderately positive news flow suggests cautious optimism."]
    ELSE IF -10 < scaled_score /\ scaled_score < 10 THEN
        [label |-> "Neutral",
         explanation |-> "News sentiment is balanced; no strong directional bias from media."]
    ELSE IF -40 < scaled_score /\ scaled_score <= -10 THEN
        [label |-> "Negative",
         explanation |-> "Negative headlines are surfacing, suggesting potential downside pressure."]
    ELSE
        [label |-> "Very Negative",
         explanation |-> "Strong negative sentiment dominates; high risk of bearish movement."]

\* lines 217-232
categorize(scaled_score) ==
    IF scaled_score >= 40 THEN
        [label |-> "Very Positive",
         explanation |-> "Strong positive sentiment detected in recent headlines; market outlook is bullish."]
    ELSE IF 10 <= scaled_score /\ scaled_score < 40 THEN
        [label |-> "Positive",
         explanation |-> "Moderately positive news flow suggests cautious optimism."]
    ELSE IF -10 < scaled_score /\ scaled_score < 10 THEN
        [label |-> "Neutral",
         explanation |-> "News sentiment is balanced; no strong directional bias from media."]
    ELSE IF -40 < scaled_score /\ scaled_score <= -10 THEN
        [label |-> "Negative",
         explanation |-> "Negative headlines are surfacing, suggesting potential downside pressure."]
    ELSE
        [label |-> "Very Negative",
         explanation |-> "Strong negative sentiment dominates; high risk of bearish movement."]

\* lines 200-238
analyze_sentiment(news) ==
    IF news = <<>>
    THEN [score |-> 0, label |-> "Neutral",
          explanation |-> "No recent impactful news detected, assuming neutral market sentiment."]
    ELSE LET scaled_score == scaled_score_of(news)
         IN  [score |-> scaled_score,
              label |-> categorize(scaled_score).label,
              explanation |-> categorize(scaled_score).explanation]

\* analyze_sentiment runs on the headlines and returns.
AnalyzeSentiment ==
    /\ sent_in # None
    /\ sent_out = None
    /\ sent_out' = analyze_sentiment(sent_in.news)
    /\ UNCHANGED <<sent_in, signalVars, predVars, newsVars, dedupVars>>
    /\ UNCHANGED <<biasVars, indVars, demoVars, aiVars>>

(***************************************************************************)
(* trade_engine.py: the market bias of get_signal                          *)
(*                                                                         *)
(* A float of the frame is NaN or the exact quotient num/den (den > 0).    *)
(* Close and the moving averages are in cents, RSI is in points.           *)
(***************************************************************************)
MaxLevel == 3     \* price levels of a drawn snapshot: 0, 50, ..., 50 * MaxLevel

NaN == [nan |-> TRUE, num |-> 0, den |-> 1]
Num(n, d) == [nan |-> FALSE, num |-> n, den |-> d]

\* pd.isna
isna(x) == x.nan

\* a > b, a < b, a <= b on floats: False when an operand is NaN
gt(a, b) == ~a.nan /\ ~b.nan /\ a.num * b.den > b.num * a.den
lt(a, b) == gt(b, a)
le(a, b) == ~a.nan /\ ~b.nan /\ a.num * b.den <= b.num * a.den

\* line 162: float(latest["RSI"]) if not pd.isna(latest["RSI"]) else 50
rsi_of(latest) == IF ~isna(latest.RSI) THEN latest.RSI ELSE Num(50, 1)

\* Faulty variant of market_bias: the RSI band does not override a decisive
\* moving-average comparison.
market_bias_rsi_first(price, sma_20, sma_50, rsi) ==
    IF gt(price, sma_50) /\ gt(sma_20, sma_50) THEN "Positive"
    ELSE IF lt(price, sma_50) /\ lt(sma_20, sma_50) THEN "Negative"
    ELSE "Neutral"

\* lines 179-186
market_bias(price, sma_20, sma_50, rsi) ==
    LET bias == IF gt(price, sma_50) /\ gt(sma_20, sma_50) THEN "Positive"
                ELSE IF lt(price, sma_50) /\ lt(sma_20, sma_50) THEN "Negative"
                ELSE "Neutral"
    IN  IF le(Num(45, 1), rsi) /\ le(rsi, Num(55, 1)) THEN "Neutral" ELSE bias

\* lines 158-186 on the latest row: the values read from it and the bias.
get_signal_bias(latest) ==
    [price       |-> latest.Close,
     rsi         |-> rsi_of(latest),
     rsi_default |-> isna(latest.RSI),
     sma_50      |-> latest.SMA_50,
     sma_20      |-> latest.SMA_20,
     market_bias |-> market_bias(latest.Close, latest.SMA_20, latest.SMA_50,
                                 rsi_of(latest))]

\* Latest rows: Close, SMA_20 and SMA_50 on a few levels, RSI around the band.
Levels == {Num(5000 * k, 1) : k \in 0..MaxLevel}
RSIs == {Num(0, 1), Num(4499, 100), Num(45, 1), Num(50, 1), Num(55, 1),
         Num(5501, 100), Num(100, 1)}
Snapshots == [Close : Levels, SMA_20 : Levels, SMA_50 : Levels, RSI : RSIs]

\* get_signal classifies the latest row.
ClassifyBias ==
    /\ bias_in # None
    /\ bias_out = None
    /\ bias_out' = get_signal_bias(bias_in)
    /\ UNCHANGED <<bias_in, indVars, demoVars, aiVars>>
    /\ UNCHANGED <<signalVars, predVars, newsVars, dedupVars, sentVars>>

(***************************************************************************)
(* trade_engine.py: calculate_indicators, on the Close column              *)
(*                                                                         *)
(* The columns the bias reads are computed for the latest row: SMA_20,     *)
(* SMA_50 and RSI.  Closes are in cents; means are exact quotients.        *)
(***************************************************************************)
MaxBars  == 52     \* rows of the frame get_signal computes indicators on
MaxCycle == 3      \* the daily changes of a drawn frame repeat after <= MaxCycle days

SmaShort  == 20    \* rolling(20)
SmaLong   == 50    \* rolling(50)
RsiWindow == 14    \* rolling(14)

\* series[-w:]
tail(series, w) == SubSeq(series, Len(series) - w + 1, Len(series))

\* series.rolling(w).mean() at the latest row: NaN before w values exist
rolling_mean(series, w) ==
    IF Len(series) < w THEN NaN ELSE Num(sum(tail(series, w)), w)

\* df["Close"].diff(), without its first (NaN) entry
diff(close) == [k \in 1..(Len(close) - 1) |-> close[k + 1] - close[k]]

\* delta.clip(lower=0) and -delta.clip(upper=0)
clip_gain(delta) == [k \in 1..Len(delta) |-> Max(delta[k], 0)]
clip_loss(delta) == [k \in 1..Len(delta) |-> Max(-delta[k], 0)]

\* lines 91-95 at the latest row.  gain and loss are means of 14 changes in
\* cents; a loss of 0 is replaced by 0.001 (a tenth of a cent), so
\* rs = gain / loss and RSI = 100 - 100 / (1 + rs) = 100 * rs / (1 + rs).
RSI(close) ==
    LET gain == rolling_mean(clip_gain(diff(close)), RsiWindow)
        loss == rolling_mean(clip_loss(diff(close)), RsiWindow)
    IN  IF isna(gain) \/ isna(loss) THEN NaN
        ELSE IF loss.num = 0
             THEN Num(1000 * gain.num, RsiWindow + 10 * gain.num)
             ELSE Num(100 * gain.num, gain.num + loss.num)

\* Faulty variant of fillna: undefined values are left as they are.
fillna_skipped(x) == x

\* line 115: df.fillna(0)
fillna(x) == IF isna(x) THEN Num(0, 1) ELSE x

\* lines 78-115: the latest row of the frame that is returned
calculate_indicators(close) ==
    [Close  |-> Num(close[Len(close)], 1),
     SMA_20 |-> fillna(rolling_mean(close, SmaShort)),
     SMA_50 |-> fillna(rolling_mean(close, SmaLong)),
     RSI    |-> fillna(RSI(close))]

\* Frames: the first close is 100.00 and the daily changes of -1, 0 or +1
\* repeat with a period of at most MaxCycle days.
Cycles == UNION {[1..c -> {-100, 0, 100}] : c \in 1..MaxCycle}

RECURSIVE closes_from(_, _, _)
closes_from(close, cycle, n) ==
    IF Len(close) >= n THEN close
    ELSE closes_from(
            Append(close,
                   close[Len(close)] + cycle[((Len(close) - 1) % Len(cycle)) + 1]),
            cycle, n)

Frames ==
    {closes_from(<<10000>>, cycle, n) : cycle \in Cycles, n \in MinBars..MaxBars}

\* get_signal lines 157-186 on the frame fetch_data returned
ComputeIndicators ==
    /\ ind_in # None
    /\ ind_out = None
    /\ ind_out' = [rows   |-> Len(ind_in.Close),
                   latest |-> calculate_indicators(ind_in.Close),
                   signal |-> get_signal_bias(calculate_indicators(ind_in.Close))]
    /\ UNCHANGED <<ind_in, biasVars, demoVars, aiVars>>
    /\ UNCHANGED <<signalVars, predVars, newsVars, dedupVars, sentVars>>

(***************************************************************************)
(* trade_engine.py: generate_demo_data, bar by bar                         *)
(*                                                                         *)
(* price, low, high and the draws are in 1/1000; the rounded Open, High,   *)
(* Low, Close of a bar are in cents.  The frame under construction is kept *)
(* as its index (the dates appended so far) and the bar appended last.     *)
(* Volume, an independent draw that nothing reads, is left out of the bar. *)
(***************************************************************************)
\* line 51: pd.date_range(end=now, periods=60, freq="D"), in days from now
dates == [k \in 1..DemoBars |-> k - DemoBars]

\* The draws of random.uniform, at the ends and inside of each interval.
BaseDraws   == {-20000, 20000}          \* uniform(-20, 20)
ChangeDraws == {-2000, 2000}            \* uniform(-2, 2)
SpreadDraws == {500, 1005, 1500}        \* uniform(0.5, 1.5)
OpenDraws   == {-500, 5, 500}           \* uniform(-0.5, 0.5)

\* round(x, 2) of x given in 1/1000, and of x given in 1/2000
round2(x) == RoundHalfEven(0, x, 10)
round2_half(x2) == RoundHalfEven(0, x2, 20)

\* Faulty variant of synthetic_bar: the open is drawn within 1.0 of the
\* middle of the bar.
synthetic_bar_wide_open(d, price, down, up, off) ==
    LET low  == price - down
        high == price + up
    IN  [Date |-> d,
         Open |-> round2_half(low + high + 4 * off),
         High |-> round2(high),
         Low  |-> round2(low),
         Close |-> round2(price)]

\* lines 60-72: the bar appended for date d at the price reached
synthetic_bar(d, price, down, up, off) ==
    LET low  == price - down
        high == price + up
    IN  [Date |-> d,
         Open |-> round2_half(low + high + 2 * off),
         High |-> round2(high),
         Low  |-> round2(low),
         Close |-> round2(price)]

\* lines 51-55: the dates, the base price, the empty data list
DemoStart ==
    /\ demo_loop = [kind |-> "call"]
    /\ \E base \in BaseDraws :
          demo_loop' = [kind |-> "loop", price |-> 150000 + base,
                        index |-> <<>>, last |-> None]
    /\ UNCHANGED <<demo_out, biasVars, indVars, aiVars>>
    /\ UNCHANGED <<signalVars, predVars, newsVars, dedupVars, sentVars>>

\* lines 56-72: one iteration of "for d in dates"
DemoBar ==
    /\ demo_loop.kind = "loop"
    /\ Len(demo_loop.index) < Len(dates)
    /\ \E change \in ChangeDraws, down \in SpreadDraws, up \in SpreadDraws,
          off \in OpenDraws :
          LET d     == dates[Len(demo_loop.index) + 1]
              price == demo_loop.price + change
          IN  demo_loop' = [kind |-> "loop", price |-> price,
                            index |-> Append(demo_loop.index, d),
                            last |-> synthetic_bar(d, price, down, up, off)]
    /\ UNCHANGED <<demo_out, biasVars, indVars, aiVars>>
    /\ UNCHANGED <<signalVars, predVars, newsVars, dedupVars, sentVars>>

\* lines 74-76: the frame is built from the data list and returned
DemoReturn ==
    /\ demo_loop.kind = "loop"
    /\ Len(demo_loop.index) = Len(dates)
    /\ demo_out' = [rows |-> Len(demo_loop.index), index |-> demo_loop.index,
                    last |-> demo_loop.last]
    /\ demo_loop' = [kind |-> "returned"]
    /\ UNCHANGED <<biasVars, indVars, aiVars>>
    /\ UNCHANGED <<signalVars, predVars, newsVars, dedupVars, sentVars>>

(***************************************************************************)
(* ai_engine.py: MarketReasoning                                           *)
(*                                                                         *)
(* A dict is a function from its keys to their values.  The text of a      *)
(* response is its body and whether the body is wrapped in a ```json       *)
(* fence; technicals['rsi'] is kept as the text the f-string gives it.     *)
(***************************************************************************)
RequiredKeys == {"primary_factor", "reasoning_summary", "outlook",
                 "confidence_score"}

\* os.getenv("GEMINI_API_KEY"): unset, empty, or a key
ApiKeys == {[set |-> FALSE, value |-> ""], [set |-> TRUE, value |-> ""],
            [set |-> TRUE, value |-> "key"]}

\* lines 5-11: self.model
MarketReasoning_init(api_key) ==
    IF ~api_key.set \/ api_key.value = ""
    THEN None
    ELSE [kind |-> "GenerativeModel", name |-> "gemini-1.5-flash"]

\* lines 19-22: the value returned when there is no model
no_model_payload ==
    [k \in {"primary_factor", "analyst_summary"} |->
        IF k = "primary_factor" THEN <<"Data Sync Needed">>
        ELSE <<"Engine initializing...">>]

\* lines 58-63: the value returned by the except branch
fallback_payload(technicals) ==
    [k \in RequiredKeys |->
        CASE k = "primary_factor"    -> <<"Quantitative Edge">>
          [] k = "reasoning_summary" ->
                <<"Alignment of RSI (", technicals.rsi,
                  ") and price action confirms current trend.">>
          [] k = "outlook"           -> <<"Neutral">>
          [] k = "confidence_score"  -> <<"75">>]

\* The keys an object sent by the model can have, and a value for each.
ResponseKeys == RequiredKeys \cup {"analyst_summary"}
response_object(keys) == [k \in keys |-> <<"from the model", k>>]

\* What the body of a response can be: a JSON object, a JSON array, or text
\* that is not JSON.
Bodies ==
    {[json |-> "object", keys |-> ks] : ks \in SUBSET ResponseKeys}
    \cup {[json |-> "array", keys |-> {}], [json |-> "malformed", keys |-> {}]}

\* What self.model.generate_content(prompt, timeout=6) can do: raise (time
\* out, refuse the call, fail on response.text), or give a response.
LLMOutcomes ==
    {[kind |-> "raise", fenced |-> FALSE, body |-> [json |-> "malformed", keys |-> {}]]}
    \cup {[kind |-> "response", fenced |-> f, body |-> b] :
            f \in BOOLEAN, b \in Bodies}

\* line 55: response.text.strip().replace("```json", "").replace("```", "")
strip_fence(response) == [response EXCEPT !.fenced = FALSE]

\* line 56: json.loads(ai_output) raises on text that is not JSON, and gives
\* whatever value the text denotes otherwise.
json_loads(ai_output) ==
    IF ai_output.fenced \/ ai_output.body.json = "malformed"
    THEN [raised |-> TRUE, value |-> None]
    ELSE IF ai_output.body.json = "array"
         THEN [raised |-> FALSE,
               value |-> [type |-> "list", items |-> response_object({})]]
         ELSE [raised |-> FALSE,
               value |-> [type |-> "dict",
                          items |-> response_object(ai_output.body.keys)]]

\* lines 13-63
analyze_market_state(model, technicals, llm) ==
    IF model = None
    THEN [type |-> "dict", items |-> no_model_payload]
    ELSE IF llm.kind = "raise" \/ json_loads(strip_fence(llm)).raised
         THEN [type |-> "dict", items |-> fallback_payload(technicals)]
         ELSE json_loads(strip_fence(llm)).value

RsiTexts == {"0", "50.0", "71.23"}

AnalyzeMarketState ==
    /\ ai_in # None
    /\ ai_out = None
    /\ ai_out' = analyze_market_state(ai_model, ai_in.technicals, ai_in.llm)
    /\ UNCHANGED <<ai_model, ai_in, biasVars, indVars, demoVars>>
    /\ UNCHANGED <<signalVars, predVars, newsVars, dedupVars, sentVars>>

(***************************************************************************)
(* Specifications.                                                         *)
(***************************************************************************)
\* The engines as app.py constructs them; no call is in progress.
InitSignal ==
    /\ demo_mode = FALSE
    /\ pc = [t \in Threads |-> "idle"]
    /\ req = [t \in Threads |-> None]
    /\ provided = [t \in Threads |-> None]
    /\ df = [t \in Threads |-> None]
    /\ result = [t \in Threads |-> None]

NoPrediction == pred_in = None /\ pred_out = None
NoNews       == news_in = None /\ news_out = None
NoDedup      == dedup_in = None /\ dedup_out = None
NoSentiment  == sent_in = None /\ sent_out = None
NoBias       == bias_in = None /\ bias_out = None
NoIndicators == ind_in = None /\ ind_out = None
NoDemo       == demo_loop = None /\ demo_out = None
NoAI         == ai_model = None /\ ai_in = None /\ ai_out = None

\* None of the functions checked on their own is running.
NoOther == NoBias /\ NoIndicators /\ NoDemo /\ NoAI

Init ==
    /\ InitSignal /\ NoPrediction /\ NoNews /\ NoDedup /\ NoSentiment
    /\ NoOther

\* The server: requests are served concurrently on the one engine instance.
Next ==
    \E t \in Threads : Call(t) \/ FetchData(t) \/ Assemble(t) \/ Return(t)

Spec == Init /\ [][Next]_vars

\* One client that waits for each response before it sends the next request.
NextOneCall ==
    \E t \in {1} : Call(t) \/ FetchData(t) \/ Assemble(t) \/ Return(t)

SpecOneCall == Init /\ [][NextOneCall]_vars

\* estimate_next_24h as a function of its arguments.
InitPredict ==
    /\ InitSignal /\ NoNews /\ NoDedup /\ NoSentiment
    /\ NoOther
    /\ pred_in \in PredictionInputs
    /\ pred_out = None

NextPredict == EstimateNext24h

SpecPredict == InitPredict /\ [][NextPredict]_vars

\* fetch_news as a function of what the sources did and of limit.
InitNews ==
    /\ InitSignal /\ NoPrediction /\ NoDedup /\ NoSentiment
    /\ NoOther
    /\ \E g \in SourceOutcomes("Google News", MaxNews) :
       \E y \in SourceOutcomes("Yahoo Finance", MaxNews - Len(g.news)) :
       \E b \in SourceOutcomes("Bing News", MaxNews - Len(g.news) - Len(y.news)) :
       \E limit \in 0..MaxLimit :
          news_in = [kind |-> "call", google |-> g, yahoo |-> y, bing |-> b,
                     limit |-> limit]
    /\ news_out = None

NextNews == FetchNews

SpecNews == InitNews /\ [][NextNews]_vars

\* _deduplicate_news as a function of news_list.
InitDedup ==
    /\ InitSignal /\ NoPrediction /\ NoNews /\ NoSentiment
    /\ NoOther
    /\ dedup_in \in [kind : {"call"}, news_list : SeqsUpTo(DedupHeadlines, MaxList)]
    /\ dedup_out = None

NextDedup == DeduplicateNews

SpecDedup == InitDedup /\ [][NextDedup]_vars

\* analyze_sentiment as a function of the headlines.
InitSentiment ==
    /\ InitSignal /\ NoPrediction /\ NoNews /\ NoDedup
    /\ NoOther
    /\ sent_in \in [kind : {"call"}, news : SeqsUpTo(Compounds, MaxHeadlines)]
    /\ sent_out = None

NextSentiment == AnalyzeSentiment

SpecSentiment == InitSentiment /\ [][NextSentiment]_vars

\* The bias of get_signal as a function of the latest row.
InitBias ==
    /\ InitSignal /\ NoPrediction /\ NoNews /\ NoDedup /\ NoSentiment
    /\ NoIndicators /\ NoDemo /\ NoAI
    /\ bias_in \in Snapshots
    /\ bias_out = None

NextBias == ClassifyBias

SpecBias == InitBias /\ [][NextBias]_vars

\* The indicators and the bias of get_signal as a function of the frame.
InitIndicators ==
    /\ InitSignal /\ NoPrediction /\ NoNews /\ NoDedup /\ NoSentiment
    /\ NoBias /\ NoDemo /\ NoAI
    /\ ind_in \in [Close : Frames]
    /\ ind_out = None

NextIndicators == ComputeIndicators

SpecIndicators == InitIndicators /\ [][NextIndicators]_vars

\* One call of generate_demo_data.
InitDemo ==
    /\ InitSignal /\ NoPrediction /\ NoNews /\ NoDedup /\ NoSentiment
    /\ NoBias /\ NoIndicators /\ NoAI
    /\ demo_loop = [kind |-> "call"]
    /\ demo_out = None

NextDemo == DemoStart \/ DemoBar \/ DemoReturn

SpecDemo == InitDemo /\ [][NextDemo]_vars

\* ai_hub as app.py constructs it, and one call of analyze_market_state.
InitAI ==
    /\ InitSignal /\ NoPrediction /\ NoNews /\ NoDedup /\ NoSentiment
    /\ NoBias /\ NoIndicators /\ NoDemo
    /\ \E api_key \in ApiKeys : ai_model = MarketReasoning_init(api_key)
    /\ ai_in \in [technicals : [rsi : RsiTexts], llm : LLMOutcomes]
    /\ ai_out = None

NextAI == AnalyzeMarketState

SpecAI == InitAI /\ [][NextAI]_vars


(***************************************************************************)
(* Claims about the signal request.                                        *)
(***************************************************************************)
\* The provider failed for this call: it raised, returned nothing, returned
\* no rows, or returned fewer than 10 bars.
ProviderFailed(o) == o.kind \in {"raise", "none"} \/ o.rows = 0 \/ o.rows < 10

\* C1: when the live provider raises, returns no rows or returns fewer than
\* 10 bars, fetch_data returns the synthesized 60-bar demo series and the
\* result get_signal builds has mode = DEMO (and 60 chart entries); when the
\* provider returns 10 or more bars, the bars are the provider's and the
\* result has mode = LIVE.  Checked for a call that runs alone.
C1_FallbackAndMode ==
    \A t \in Threads :
        pc[t] \in {"assemble", "done"} =>
            /\ ProviderFailed(provided[t]) =>
                  df[t] = [synthetic |-> TRUE, rows |-> 60]
            /\ ~ProviderFailed(provided[t]) =>
                  df[t] = [synthetic |-> FALSE, rows |-> provided[t].rows]
            /\ pc[t] = "done" =>
                  /\ result[t].kind = "signal"
                  /\ ProviderFailed(provided[t]) =>
                        result[t].mode = "DEMO" /\ result[t].charts = 60
                  /\ ~ProviderFailed(provided[t]) => result[t].mode = "LIVE"

\* A call whose provider returned 9 bars has finished with a DEMO result.
C1_Witness ==
    /\ pc[1] = "done"
    /\ provided[1] = [kind |-> "frame", rows |-> 9]
    /\ result[1].mode = "DEMO"

\* C2: for any interleaving of two concurrent get_signal calls on the one
\* engine, each finished call reports mode = DEMO exactly when the bars that
\* call itself used were synthesized.
C2_ModeMatchesOwnBars ==
    \A t \in Threads :
        (pc[t] = "done" /\ result[t].kind = "signal") =>
            (result[t].mode = "DEMO" <=> df[t].synthetic)

(***************************************************************************)
(* Claims about estimate_next_24h.                                         *)
(***************************************************************************)
\* The prediction the stated formula gives for the latest row `l`, score `s`
\* and effective volatility `v` (1/10000): sigma = price * v,
\* bias = (s/100)*0.5 + (0.5 if momentum > 0 else -0.5)*0.5,
\* estimated_price = price + sigma*bias, range = estimated_price -/+ sigma,
\* each reported to 2 decimals (cents).
C3_Formula(l, s, v) ==
    LET den   == 10000 * 200
        sigma == l.Close * v                               \* cents / 10000
        bias  == s + (IF l.momentum > 0 THEN 50 ELSE -50)   \* 1 / 200
        move  == sigma * bias                               \* cents / den
    IN  [estimated_price |-> RoundHalfEven(l.Close, move, den),
         range |-> <<RoundHalfEven(l.Close, move - sigma * 200, den),
                     RoundHalfEven(l.Close, move + sigma * 200, den)>>]

C3_Agrees(v) ==
    /\ pred_out.estimated_price = C3_Formula(pred_in.latest, pred_in.sentiment_score, v).estimated_price
    /\ pred_out.range = C3_Formula(pred_in.latest, pred_in.sentiment_score, v).range

C3_Example ==
    pred_in = [kind |-> "call",
               latest |-> [Close |-> 10000, volatility |-> 200, momentum |-> 150],
               sentiment_score |-> 50]

\* C3 as stated: sigma = price * max(volatility, 0.015), so a positive
\* volatility below 0.015 is raised to 0.015.
C3_AsStated ==
    pred_out # None =>
        C3_Agrees(Max(pred_in.latest.volatility, 150))

\* C3 (amended): sigma = price * (volatility if volatility > 0 else 0.015):
\* only a volatility that is not positive is replaced by 0.015, a positive
\* volatility below 0.015 is used as it is; bias, estimated_price and range
\* are as stated, reported to 2 decimals; price=100, volatility=0.02,
\* momentum=1.5, sentiment_score=50 gives 101.0 and [99.0, 103.0].
C3_PositiveElseDefault ==
    pred_out # None =>
        /\ C3_Agrees(IF pred_in.latest.volatility > 0
                     THEN pred_in.latest.volatility ELSE 150)
        /\ C3_Example =>
              /\ pred_out.estimated_price = 10100
              /\ pred_out.range = <<9900, 10300>>

\* estimate_next_24h has run on a positive volatility below 0.015 and used it.
C3_Witness ==
    /\ pred_out # None
    /\ pred_in.latest = [Close |-> 10000, volatility |-> 100, momentum |-> 150]
    /\ pred_in.sentiment_score = 50
    /\ pred_out.volatility_factor = 100
    /\ pred_out.estimated_price = 10050
    /\ pred_out.range = <<9950, 10150>>

\* C4: prediction_confidence is 70, plus 10 exactly when momentum and
\* sentiment_score are both strictly positive or both strictly negative,
\* minus 15 exactly when volatility > 0.03, clamped to [40, 95]; so it is
\* always within [40, 95].
C4_Confidence ==
    pred_out # None =>
        LET m     == pred_in.latest.momentum
            s     == pred_in.sentiment_score
            agree == (m > 0 /\ s > 0) \/ (m < 0 /\ s < 0)
            raw   == 70 + (IF agree THEN 10 ELSE 0)
                        - (IF pred_in.latest.volatility > 300 THEN 15 ELSE 0)
            want  == IF raw < 40 THEN 40 ELSE IF raw > 95 THEN 95 ELSE raw
        IN  /\ pred_out.prediction_confidence = want
            /\ pred_out.prediction_confidence >= 40
            /\ pred_out.prediction_confidence <= 95

\* Negative momentum and negative sentiment agree, and volatility is above
\* 0.03: 70 + 10 - 15.
C4_Witness ==
    /\ pred_out # None
    /\ pred_in.latest.momentum < 0
    /\ pred_in.sentiment_score < 0
    /\ pred_in.latest.volatility > 300
    /\ pred_out.prediction_confidence = 65

(***************************************************************************)
(* Claims about fetch_news.                                                *)
(***************************************************************************)
\* What a source contributed: nothing when it raised.
Collected(outcome) == IF outcome.kind = "raise" THEN <<>> ELSE outcome.news

SourceResults == <<Collected(news_in.google), Collected(news_in.yahoo),
                   Collected(news_in.bing)>>

\* The orders in which three result lists can be collected.
Orders == {p \in [1..3 -> 1..3] : \A i, j \in 1..3 : p[i] = p[j] => i = j}

\* dedup, then the descending sort, then the cut to limit, on the result
\* lists collected in the order p.
PostProcess(p, limit) ==
    LET r == SourceResults
    IN  take(sort_recent_first(_deduplicate_news(r[p[1]] \o r[p[2]] \o r[p[3]])),
             limit)

SeqRange(seq) == {seq[i] : i \in 1..Len(seq)}

\* A headline of list a has the normalized key or the timestamp of a
\* headline of list b.
Clash(a, b) ==
    \E i \in 1..Len(a), j \in 1..Len(b) :
        \/ title_key(a[i].title) = title_key(b[j].title)
        \/ a[i].published_timestamp = b[j].published_timestamp

\* No headline of one source has the normalized key or the timestamp of a
\* headline of another source.
NoClashAcrossSources ==
    /\ ~Clash(Collected(news_in.google), Collected(news_in.yahoo))
    /\ ~Clash(Collected(news_in.google), Collected(news_in.bing))
    /\ ~Clash(Collected(news_in.yahoo), Collected(news_in.bing))

\* C5 as stated: for every permutation of the order in which the three
\* result lists are collected, dedup, sort and truncation yield the list
\* fetch_news returned.
C5_AnyOrderSameOutput ==
    news_out # None =>
        \A p \in Orders : PostProcess(p, news_in.limit) = news_out.returned

\* C5 (amended): fetch_news collects in the fixed order Google, Yahoo, Bing,
\* and its output is dedup, sort and truncation of that concatenation; for
\* every permutation of the collection order the output is the same list
\* provided no two headlines of different sources share a normalized key or
\* a published_timestamp.
C5_SameOutputWithoutClash ==
    news_out # None =>
        /\ news_out.returned = PostProcess(<<1, 2, 3>>, news_in.limit)
        /\ NoClashAcrossSources =>
              \A p \in Orders : PostProcess(p, news_in.limit) = news_out.returned

\* Google delivered two headlines and Bing an older one, with no clash, and
\* the two most recent were returned.
C5_Witness ==
    /\ news_out # None
    /\ Len(SourceResults[1]) = 2
    /\ Len(SourceResults[3]) = 1
    /\ NoClashAcrossSources
    /\ SourceResults[3][1].published_timestamp = 1
    /\ Len(news_out.deduplicated) = 3
    /\ Len(news_out.returned) = 2

\* C6: for every subset of sources that raise, fetch_news returns normally
\* and its output is dedup, sort and truncate of the headlines of the sources
\* that did not raise, in the order Google, Yahoo, Bing.
Survivors ==
    (IF news_in.google.kind = "raise" THEN <<>> ELSE news_in.google.news)
    \o (IF news_in.yahoo.kind = "raise" THEN <<>> ELSE news_in.yahoo.news)
    \o (IF news_in.bing.kind = "raise" THEN <<>> ELSE news_in.bing.news)

C6_FaultIsolated ==
    news_out # None =>
        /\ news_out.kind = "returned"
        /\ news_out.all_news = Survivors
        /\ news_out.returned =
              take(sort_recent_first(_deduplicate_news(Survivors)), news_in.limit)

\* Yahoo raised between two sources that delivered, and both headlines are
\* in the output.
C6_Witness ==
    /\ news_out # None
    /\ news_in.yahoo.kind = "raise"
    /\ Len(news_in.google.news) = 1
    /\ Len(news_in.bing.news) = 1
    /\ news_in.google.news[1].title # news_in.bing.news[1].title
    /\ SeqRange(news_out.returned) =
          {news_in.google.news[1], news_in.bing.news[1]}

\* C9: the returned list has at most limit entries, is ordered by
\* published_timestamp non-increasing, and is the first limit entries of the
\* sorted deduplicated collection: every returned headline is the first
\* collected one of its key (dedup came before the sort), and no headline is
\* cut while an older one is kept.
FirstOfKey(list, h) ==
    \E i \in 1..Len(list) :
        /\ list[i] = h
        /\ \A j \in 1..(i - 1) : title_key(list[j].title) # title_key(h.title)

C9_SortedThenTruncated ==
    news_out # None =>
        LET out  == news_out.returned
            kept == SeqRange(out)
            cut  == {h \in SeqRange(news_out.all_news) :
                        FirstOfKey(news_out.all_news, h)} \ kept
        IN  /\ Len(out) <= news_in.limit
            /\ \A i \in 1..(Len(out) - 1) :
                  out[i].published_timestamp >= out[i + 1].published_timestamp
            /\ out = take(news_out.unique_news, news_in.limit)
            /\ \A h \in kept : FirstOfKey(news_out.all_news, h)
            /\ Len(out) = Min(news_in.limit,
                              Cardinality({title_key(h.title) :
                                             h \in SeqRange(news_out.all_news)}))
            /\ \A k \in kept, c \in cut :
                  k.published_timestamp >= c.published_timestamp

\* Three headlines of distinct keys were collected, the oldest first, and
\* limit is 2: the two most recent are returned and the oldest is cut.
C9_Witness ==
    /\ news_out # None
    /\ news_in.limit = 2
    /\ Len(news_out.deduplicated) = 3
    /\ news_out.deduplicated[1].published_timestamp = 1
    /\ news_out.deduplicated[2].published_timestamp = 2
    /\ news_out.deduplicated[3].published_timestamp = 2
    /\ news_out.returned = <<news_out.deduplicated[2], news_out.deduplicated[3]>>

(***************************************************************************)
(* Claims about _deduplicate_news.                                         *)
(***************************************************************************)
\* C7: deduplication is idempotent: _deduplicate_news of the list it
\* returned is that list.
C7_DedupIdempotent ==
    dedup_out # None =>
        _deduplicate_news(dedup_out.unique) = dedup_out.unique

\* A list of three headlines of one key was reduced to its first.
C7_Witness ==
    /\ dedup_out # None
    /\ Len(dedup_in.news_list) = 3
    /\ dedup_out.unique = <<dedup_in.news_list[1]>>
    /\ _deduplicate_news(dedup_out.unique) = dedup_out.unique

\* Punctuation: the characters of the model's alphabet that are neither
\* word characters (letters, digits, underscore) nor whitespace.
Punctuation == {",", "!", "-", "."}

NotPunctuation(c) == c \notin Punctuation

RECURSIVE rstrip(_)
rstrip(s) ==
    IF s # <<>> /\ s[Len(s)] \in {" ", "\t"}
    THEN rstrip(SubSeq(s, 1, Len(s) - 1))
    ELSE s

\* The title with its case folded, its punctuation removed and its trailing
\* whitespace removed: two titles differ only by letter case, punctuation or
\* trailing whitespace when these are equal.
Canonical(title) == rstrip(SelectSeq(lower(title), NotPunctuation))

DifferOnlyByCasePunctuationTrailing(t1, t2) == Canonical(t1) = Canonical(t2)

C10_Label(s) ==
    IF s >= 40 THEN "Very Positive"
    ELSE IF s >= 10 THEN "Positive"
    ELSE IF s > -10 THEN "Neutral"
    ELSE IF s > -40 THEN "Negative"
    ELSE "Very Negative"

\* The one explanation of each label.
C10_Explanation(label) ==
    CASE label = "Very Positive" ->
            "Strong positive sentiment detected in recent headlines; market outlook is bullish."
      [] label = "Positive" ->
            "Moderately positive news flow suggests cautious optimism."
      [] label = "Neutral" ->
            "News sentiment is balanced; no strong directional bias from media."
      [] label = "Negative" ->
            "Negative headlines are surfacing, suggesting potential downside pressure."
      [] label = "Very Negative" ->
            "Strong negative sentiment dominates; high risk of bearish movement."

\* C10: for a non-empty headline list, the scaled score s is an integer in
\* [-100, 100] and the label is Very Positive if s >= 40, Positive if
\* 10 <= s < 40, Neutral if -10 < s < 10, Negative if -40 < s <= -10 and
\* Very Negative otherwise (so 10 gives Positive, -10 Negative, -40 Very
\* Negative); the explanation is the one string of that label.
C10_LabelThresholds ==
    (sent_out # None /\ sent_in.news # <<>>) =>
        /\ sent_out.score \in (-100)..100
        /\ sent_out.label = C10_Label(sent_out.score)
        /\ sent_out.score = 10 => sent_out.label = "Positive"
        /\ sent_out.score = -10 => sent_out.label = "Negative"
        /\ sent_out.score = -40 => sent_out.label = "Very Negative"
        /\ sent_out.explanation = C10_Explanation(sent_out.label)

\* Two headlines of compound 0.08 and 0.12 were scored 10: Positive.
C10_Witness ==
    /\ sent_out # None
    /\ sent_in.news = <<800, 1200>>
    /\ sent_out.score = 10
    /\ sent_out.label = "Positive"

(***************************************************************************)
(* Claims about the market bias.                                           *)
(***************************************************************************)
\* x > y for two values of a latest row.
C11_Above(x, y) == x.num * y.den > y.num * x.den

\* 45 <= RSI <= 55
C11_InBand(rsi) == 45 * rsi.den <= rsi.num /\ rsi.num <= 55 * rsi.den

\* C11: for every latest snapshot, market_bias is Positive if price > SMA50
\* and SMA20 > SMA50, Negative if price < SMA50 and SMA20 < SMA50, and
\* Neutral otherwise, except that whenever 45 <= RSI <= 55 the bias is
\* Neutral regardless of the moving-average comparison.
C11_BiasClassification ==
    bias_out # None =>
        LET l == bias_in
            b == bias_out.market_bias
        IN  /\ C11_InBand(l.RSI) => b = "Neutral"
            /\ ~C11_InBand(l.RSI) =>
                  /\ (C11_Above(l.Close, l.SMA_50) /\ C11_Above(l.SMA_20, l.SMA_50))
                        => b = "Positive"
                  /\ (C11_Above(l.SMA_50, l.Close) /\ C11_Above(l.SMA_50, l.SMA_20))
                        => b = "Negative"
                  /\ ~(C11_Above(l.Close, l.SMA_50) /\ C11_Above(l.SMA_20, l.SMA_50))
                     /\ ~(C11_Above(l.SMA_50, l.Close) /\ C11_Above(l.SMA_50, l.SMA_20))
                        => b = "Neutral"

\* Price and SMA20 are above SMA50 and RSI is 55: the bias is Neutral.
C11_Witness ==
    /\ bias_out # None
    /\ bias_in = [Close |-> Num(15000, 1), SMA_20 |-> Num(10000, 1),
                  SMA_50 |-> Num(5000, 1), RSI |-> Num(55, 1)]
    /\ bias_out.market_bias = "Neutral"

(***************************************************************************)
(* Claims about generate_demo_data.                                        *)
(***************************************************************************)
\* low <= open <= high and low <= close <= high
C12_WellFormed(bar) ==
    /\ bar.Low <= bar.Open /\ bar.Open <= bar.High
    /\ bar.Low <= bar.Close /\ bar.Close <= bar.High

\* C12: for every outcome of the random draws, generate_demo_data returns
\* exactly 60 bars with strictly increasing dates, and every bar appended
\* satisfies low <= open <= high and low <= close <= high after the values
\* are rounded to 2 decimals.
C12_SixtyWellFormedBars ==
    /\ (demo_loop # None /\ demo_loop.kind = "loop" /\ demo_loop.last # None) =>
          /\ C12_WellFormed(demo_loop.last)
          /\ demo_loop.last.Date = demo_loop.index[Len(demo_loop.index)]
    /\ demo_out # None =>
          /\ demo_out.rows = 60
          /\ Len(demo_out.index) = 60
          /\ \A i \in 1..59 : demo_out.index[i] < demo_out.index[i + 1]
          /\ C12_WellFormed(demo_out.last)

\* The frame was returned, and its last bar opened at its high: the spreads
\* were 0.5 and the open was drawn 0.5 above the middle.
C12_Witness ==
    /\ demo_out # None
    /\ demo_out.rows = 60
    /\ demo_out.last.Open = demo_out.last.High
    /\ demo_out.last.High - demo_out.last.Low = 100

(***************************************************************************)
(* Claims about the LLM enrichment step.                                   *)
(***************************************************************************)
\* The step failed: there is no usable client, the call raised, the text is
\* not JSON, or the JSON is not an object with the four required keys.
C13_Failed ==
    \/ ai_model = None
    \/ ai_in.llm.kind = "raise"
    \/ ai_in.llm.body.json # "object"
    \/ ~({"primary_factor", "reasoning_summary", "outlook", "confidence_score"}
            \subseteq ai_in.llm.body.keys)

\* C13: analyze_market_state never propagates a failure: on any failure (no
\* usable client or missing key, timeout, malformed JSON, a response missing
\* a required key) it returns the canned fallback payload, so every value it
\* returns contains the four fields primary_factor, reasoning_summary,
\* outlook and confidence_score.
C13_FallbackOnAnyFailure ==
    ai_out # None =>
        /\ ai_out.type = "dict"
        /\ {"primary_factor", "reasoning_summary", "outlook", "confidence_score"}
              \subseteq DOMAIN ai_out.items
        /\ C13_Failed =>
              /\ ai_out.items["primary_factor"] = <<"Quantitative Edge">>
              /\ ai_out.items["outlook"] = <<"Neutral">>
              /\ ai_out.items["confidence_score"] = <<"75">>

(***************************************************************************)
(* Claims about undefined indicators.                                      *)
(***************************************************************************)
\* All closes of the frame are positive.
C14_PositivePrices ==
    \A k \in 1..Len(ind_in.Close) : ind_in.Close[k] > 0

\* C14: a bar sequence with fewer than 50 bars and positive prices never
\* yields market_bias = Negative: with 20 to 49 bars, SMA20 is defined and
\* positive, SMA50 is 0, and the bias is Positive unless 45 <= RSI <= 55;
\* with fewer than 20 bars SMA20 = SMA50 = 0 and the bias is Neutral; the
\* RSI default of 50 is never taken, an undefined RSI being read as 0.
C14_NeverNegativeBelow50Bars ==
    (ind_out # None /\ C14_PositivePrices) =>
        LET n == ind_out.rows
            l == ind_out.latest
            s == ind_out.signal
        IN  /\ n < 50 => s.market_bias # "Negative"
            /\ (20 <= n /\ n <= 49) =>
                  /\ l.SMA_20.num > 0
                  /\ l.SMA_50.num = 0
                  /\ C11_InBand(s.rsi) => s.market_bias = "Neutral"
                  /\ ~C11_InBand(s.rsi) => s.market_bias = "Positive"
            /\ n < 20 =>
                  /\ l.SMA_20.num = 0
                  /\ l.SMA_50.num = 0
                  /\ s.market_bias = "Neutral"
            /\ ~s.rsi_default
            /\ ~l.RSI.nan /\ ~l.SMA_20.nan /\ ~l.SMA_50.nan
            /\ n < 15 => s.rsi.num = 0

\* 30 rising bars: SMA50 is undefined and read as 0, the bias is Positive.
C14_Witness ==
    /\ ind_out # None
    /\ ind_out.rows = 30
    /\ ind_in.Close[30] > ind_in.Close[1]
    /\ ind_out.latest.SMA_50.num = 0
    /\ ind_out.signal.market_bias = "Positive"

====
